---- MODULE Spec2Model ----
(***************************************************************************)
(* A model of notion-md-sync/scripts/sync_md_to_notion.py: the inline      *)
(* span parser (parse_rich_text), the table parser (parse_markdown_table), *)
(* the block segmenter (markdown_to_notion_blocks) and the upload driver   *)
(* (sync_markdown_file, main).                                             *)
(*                                                                         *)
(* A Python str is a sequence of one-character strings; Python's 0-based   *)
(* indices are kept, so the character text[k] of the source is text[k+1]   *)
(* here.                                                                   *)
(***************************************************************************)
EXTENDS Integers, Sequences, FiniteSets, TLC

VARIABLES
    \* parse_rich_text
    text, i, rich_text, pcI,
    \* parse_markdown_table
    table_lines, table_block, pcT,
    \* markdown_to_notion_blocks
    md_content, lines, li, blocks, pcS,
    \* main / sync_markdown_file / the destination
    md_files, parent_page_id, fi, pcM, attempted, results, page_id, ci, pages

inlineVars == <<text, i, rich_text, pcI>>
tableVars == <<table_lines, table_block, pcT>>
segVars == <<md_content, lines, li, blocks, pcS>>
syncVars ==
    <<md_files, parent_page_id, fi, pcM, attempted, results, page_id, ci, pages>>
vars == <<inlineVars, tableVars, segVars, syncVars>>

----------------------------------------------------------------------------
\* Bounds of the model.

\* longest inline text given to parse_rich_text
MaxLen == 4
\* most lines handed to parse_markdown_table
MaxTableLines == 4
\* most lines of a document given to markdown_to_notion_blocks
MaxLines == 3
\* most files on the command line
MaxFiles == 2

----------------------------------------------------------------------------
\* Python str and list primitives.

Min(S) == CHOOSE x \in S : \A y \in S : x <= y

\* s[a:b] for 0 <= a
Slice(s, a, b) ==
    LET hi == IF b < Len(s) THEN b ELSE Len(s)
    IN  IF a >= hi THEN <<>> ELSE [k \in 1..(hi - a) |-> s[a + k]]

\* s[a:]
SliceFrom(s, a) == Slice(s, a, Len(s))

\* s.find(pat, start): the lowest index >= start where pat occurs, or -1
Find(s, pat, start) ==
    LET cands == {k \in start..(Len(s) - Len(pat)) : Slice(s, k, k + Len(pat)) = pat}
    IN  IF cands = {} THEN -1 ELSE Min(cands)

\* s.startswith(pat)
StartsWith(s, pat) == Slice(s, 0, Len(pat)) = pat

\* c in s, for a single character c
Contains(s, c) == \E k \in 1..Len(s) : s[k] = c

\* the characters str.strip() and \s remove
Whitespace == {" ", "\t"}

RECURSIVE LStrip(_)
LStrip(s) == IF s # <<>> /\ s[1] \in Whitespace THEN LStrip(Tail(s)) ELSE s

RECURSIVE RStrip(_)
RStrip(s) ==
    IF s # <<>> /\ s[Len(s)] \in Whitespace THEN RStrip(SubSeq(s, 1, Len(s) - 1)) ELSE s

\* s.strip()
Strip(s) == RStrip(LStrip(s))

\* s.split(sep) for a single character sep: always at least one piece.  The
\* string is split half by half, the piece that ends the first half and the
\* piece that starts the second being one piece, so that the evaluation of a
\* long file stays shallow.
RECURSIVE Split(_, _)
Split(s, sep) ==
    IF Len(s) = 0 THEN <<s>>
    ELSE IF Len(s) = 1 THEN (IF s[1] = sep THEN <<<<>>, <<>>>> ELSE <<s>>)
    ELSE LET mid == Len(s) \div 2
             a == Split(SubSeq(s, 1, mid), sep)
             b == Split(SubSeq(s, mid + 1, Len(s)), sep)
         IN  SubSeq(a, 1, Len(a) - 1) \o <<a[Len(a)] \o b[1]>> \o Tail(b)

\* sep.join(parts) for a single character sep, joined half by half
RECURSIVE Join(_, _)
Join(parts, sep) ==
    IF parts = <<>> THEN <<>>
    ELSE IF Len(parts) = 1 THEN parts[1]
    ELSE LET mid == Len(parts) \div 2
         IN  Join(SubSeq(parts, 1, mid), sep) \o <<sep>>
                \o Join(SubSeq(parts, mid + 1, Len(parts)), sep)

\* the concatenation of a sequence of strings
RECURSIVE Concat(_)
Concat(parts) == IF parts = <<>> THEN <<>> ELSE parts[1] \o Concat(Tail(parts))

\* all sequences over S of length at most n
SeqUpTo(S, n) == UNION {[1..k -> S] : k \in 0..n}

----------------------------------------------------------------------------
\* parse_rich_text: the run records.

Annotations(b, c) ==
    [bold |-> b, italic |-> FALSE, strikethrough |-> FALSE,
     underline |-> FALSE, code |-> c, color |-> "default"]

\* any(annotations.values()): Python truth of each value of the dict; the
\* value of 'color' is a str, true when it is not empty
AnyValues(a) ==
    a.bold \/ a.italic \/ a.strikethrough \/ a.underline \/ a.code \/ a.color # ""

\* {'type': 'text', 'text': {'content': c}, 'annotations': {...}}
TextRun(c, b, cd) ==
    [content |-> c, has_link |-> FALSE, url |-> <<>>,
     has_annotations |-> TRUE, annotations |-> Annotations(b, cd)]

\* {'type': 'text', 'text': {'content': c, 'link': {'url': u}}, 'annotations': {...}}
LinkRun(c, u) ==
    [content |-> c, has_link |-> TRUE, url |-> u,
     has_annotations |-> TRUE, annotations |-> Annotations(FALSE, FALSE)]

\* {'type': 'text', 'text': {'content': c}}: the run of line 172, no annotations
BareRun(c) ==
    [content |-> c, has_link |-> FALSE, url |-> <<>>,
     has_annotations |-> FALSE,
     annotations |-> [bold |-> FALSE, italic |-> FALSE, strikethrough |-> FALSE,
                      underline |-> FALSE, code |-> FALSE, color |-> ""]]

----------------------------------------------------------------------------
\* parse_rich_text: one iteration of the while loop, branch by branch.

STARS == <<"*", "*">>

\* the backtick character, written as an atom of its own: a TLA+ string
\* literal cannot hold a backtick
TICK == "BQ"

\* line 93-95: the index of the closing ** of a bold span opening at i, or -1
BoldEnd(t, k) ==
    IF Slice(t, k, k + 2) = STARS THEN Find(t, STARS, k + 2) ELSE -1

\* line 107-109: the index of the closing backtick of a code span opening at
\* i, or -1
CodeEnd(t, k) ==
    IF t[k + 1] = TICK /\ (k = 0 \/ t[k] # TICK)
    THEN LET end == Find(t, <<TICK>>, k + 1)
         IN  IF end # -1 /\ (end + 1 >= Len(t) \/ t[end + 2] # TICK) THEN end ELSE -1
    ELSE -1

\* line 121-123: the index of the ] of a link opening at i when ( follows it,
\* or -1
LinkBracket(t, k) ==
    IF t[k + 1] = "["
    THEN LET close_bracket == Find(t, <<"]">>, k)
         IN  IF close_bracket # -1 /\ close_bracket + 1 < Len(t)
                /\ t[close_bracket + 2] = "("
             THEN close_bracket ELSE -1
    ELSE -1

\* line 124-125: the index of the closing ) of that link, or -1
LinkEnd(t, k) ==
    IF LinkBracket(t, k) # -1 THEN Find(t, <<")">>, LinkBracket(t, k) + 2) ELSE -1

\* line 138-141
NextSpecial(t, k) ==
    Min({Len(t)} \cup
        ({Find(t, STARS, k), Find(t, <<TICK>>, k), Find(t, <<"[">>, k)} \ {-1}))

\* the branch the iteration at cursor k takes
Branch(t, k) ==
    IF BoldEnd(t, k) # -1 THEN "bold"
    ELSE IF CodeEnd(t, k) # -1 THEN "code"
    ELSE IF LinkEnd(t, k) # -1 THEN "link"
    ELSE IF NextSpecial(t, k) = k THEN "single"
    ELSE "plain"

\* line 145, 159: the condition under which plain text joins the previous run
CanCoalesce(rt) ==
    /\ rt # <<>>
    /\ ~rt[Len(rt)].has_link
    /\ ~AnyValues(rt[Len(rt)].annotations)

\* line 145-153, 159-167
AppendPlain(rt, c) ==
    IF CanCoalesce(rt)
    THEN [rt EXCEPT ![Len(rt)].content = @ \o c]
    ELSE Append(rt, TextRun(c, FALSE, FALSE))

\* line 96-104
BoldStep(t, k, rt) ==
    LET end == BoldEnd(t, k)
    IN  [i |-> end + 2,
         rich_text |-> Append(rt, TextRun(Slice(t, k + 2, end), TRUE, FALSE))]

\* CodeStep keeping the opening backtick in the content
CodeStep_KeepsTick(t, k, rt) ==
    LET end == CodeEnd(t, k)
    IN  [i |-> end + 1,
         rich_text |-> Append(rt, TextRun(Slice(t, k, end), FALSE, TRUE))]

\* line 110-118
CodeStep(t, k, rt) ==
    LET end == CodeEnd(t, k)
    IN  [i |-> end + 1,
         rich_text |-> Append(rt, TextRun(Slice(t, k + 1, end), FALSE, TRUE))]

\* line 126-135
LinkStep(t, k, rt) ==
    LET close_bracket == LinkBracket(t, k)
        close_paren == LinkEnd(t, k)
    IN  [i |-> close_paren + 1,
         rich_text |-> Append(rt, LinkRun(Slice(t, k + 1, close_bracket),
                                          Slice(t, close_bracket + 2, close_paren)))]

\* SingleCharStep without the i += 1 of line 154
SingleCharStep_NoAdvance(t, k, rt) ==
    [i |-> k, rich_text |-> AppendPlain(rt, <<t[k + 1]>>)]

\* line 143-154
SingleCharStep(t, k, rt) ==
    [i |-> k + 1, rich_text |-> AppendPlain(rt, <<t[k + 1]>>)]

\* line 155-168
PlainStep(t, k, rt) ==
    LET next_special == NextSpecial(t, k)
        content == Slice(t, k, next_special)
    IN  [i |-> next_special,
         rich_text |-> IF content # <<>> THEN AppendPlain(rt, content) ELSE rt]

\* line 91-168: one iteration
InlineStep(t, k, rt) ==
    CASE Branch(t, k) = "bold" -> BoldStep(t, k, rt)
      [] Branch(t, k) = "code" -> CodeStep(t, k, rt)
      [] Branch(t, k) = "link" -> LinkStep(t, k, rt)
      [] Branch(t, k) = "single" -> SingleCharStep(t, k, rt)
      [] OTHER -> PlainStep(t, k, rt)

\* line 170-174
InlineResult(t, rt) == IF rt = <<>> THEN <<BareRun(t)>> ELSE rt

RECURSIVE InlineLoop(_, _, _)
InlineLoop(t, k, rt) ==
    IF k < Len(t)
    THEN LET s == InlineStep(t, k, rt) IN InlineLoop(t, s.i, s.rich_text)
    ELSE InlineResult(t, rt)

\* line 86-174, as a function of its argument
parse_rich_text(t) == InlineLoop(t, 0, <<>>)

----------------------------------------------------------------------------
\* parse_rich_text as a process: one action per branch of the loop body.

\* the characters of the inline texts explored
InlineAlphabet == {"*", TICK, "[", "]", "(", ")", "a"}

\* longer texts explored beside every text of at most MaxLen characters: whole
\* links, and spans between plain text
LongInputs ==
    {<<"[", "a", "]", "(", "a", ")">>,
     <<"a", "[", "a", "]", "(", "a", ")", "a">>,
     <<"[", "a", "]", "(", "a", ")", "[", "a">>,
     <<"*", "*", "a", "*", "*", "a">>,
     <<"a", "*", "*", "a", "*", "*", "a">>,
     <<"a", "a", TICK, "a", TICK, "a">>,
     <<"*", "*", "a", "*", "*", TICK, "a", TICK, "[", "a", "]", "(", "a", ")">>,
     <<"a", "*", "*", "[", "a", "]", "a">>}

IdleInline == text = <<>> /\ i = 0 /\ rich_text = <<>> /\ pcI = "idle"

IdleTable == table_lines = <<>> /\ table_block = [type |-> "None"] /\ pcT = "idle"

IdleSeg ==
    md_content = <<>> /\ lines = <<>> /\ li = 0 /\ blocks = <<>> /\ pcS = "idle"

IdleSync ==
    /\ md_files = <<>> /\ parent_page_id = 0 /\ fi = 0 /\ pcM = "idle"
    /\ attempted = <<>> /\ results = <<>> /\ page_id = 0 /\ ci = 0 /\ pages = <<>>

ApplyInline(s) ==
    /\ i' = s.i
    /\ rich_text' = s.rich_text
    /\ UNCHANGED <<text, pcI>>
    /\ UNCHANGED <<tableVars, segVars, syncVars>>

InLoop == pcI = "loop" /\ i < Len(text)

Bold ==
    /\ InLoop /\ Branch(text, i) = "bold"
    /\ ApplyInline(BoldStep(text, i, rich_text))

InlineCode ==
    /\ InLoop /\ Branch(text, i) = "code"
    /\ ApplyInline(CodeStep(text, i, rich_text))

Link ==
    /\ InLoop /\ Branch(text, i) = "link"
    /\ ApplyInline(LinkStep(text, i, rich_text))

SingleChar ==
    /\ InLoop /\ Branch(text, i) = "single"
    /\ ApplyInline(SingleCharStep(text, i, rich_text))

PlainSegment ==
    /\ InLoop /\ Branch(text, i) = "plain"
    /\ ApplyInline(PlainStep(text, i, rich_text))

\* line 91 (loop exit), 170-174
InlineReturn ==
    /\ pcI = "loop" /\ i >= Len(text)
    /\ rich_text' = InlineResult(text, rich_text)
    /\ pcI' = "done"
    /\ UNCHANGED <<text, i>>
    /\ UNCHANGED <<tableVars, segVars, syncVars>>

InitInline ==
    /\ text \in SeqUpTo(InlineAlphabet, MaxLen) \cup LongInputs
    /\ i = 0
    /\ rich_text = <<>>
    /\ pcI = "loop"
    /\ IdleTable /\ IdleSeg /\ IdleSync

NextInline ==
    Bold \/ InlineCode \/ Link \/ SingleChar \/ PlainSegment \/ InlineReturn

SpecInline == InitInline /\ [][NextInline]_vars

----------------------------------------------------------------------------
\* Properties of parse_rich_text.

\* a run with no link and every style flag false
Unstyled(r) ==
    /\ ~r.has_link
    /\ ~r.annotations.bold /\ ~r.annotations.italic /\ ~r.annotations.strikethrough
    /\ ~r.annotations.underline /\ ~r.annotations.code

\* the Markdown a run was read from: its content inside the markers of its kind
Rewrap(r) ==
    IF r.has_link THEN <<"[">> \o r.content \o <<"]", "(">> \o r.url \o <<")">>
    ELSE IF r.annotations.bold THEN STARS \o r.content \o STARS
    ELSE IF r.annotations.code THEN <<TICK>> \o r.content \o <<TICK>>
    ELSE r.content

RewrapAll(rt) == Concat([k \in 1..Len(rt) |-> Rewrap(rt[k])])

ContentAll(rt) == Concat([k \in 1..Len(rt) |-> rt[k].content])

\* the text holds none of the opening markers **, backtick, [
NoDelimiters(t) ==
    Find(t, STARS, 0) = -1 /\ Find(t, <<TICK>>, 0) = -1 /\ Find(t, <<"[">>, 0) = -1

\* C1: parse_rich_text terminates on every input: every iteration of the
\* loop, whichever branch it takes, strictly increases the cursor i, which
\* never passes the end of the text, and the runs returned for a non-empty
\* input are not empty.
C1_Terminates ==
    /\ [][InLoop => (i' > i /\ i' <= Len(text))]_vars
    /\ [](pcI = "done" /\ text # <<>> => rich_text # <<>>)

\* a parse that has returned after taking a code span and a fallback character
C1_Witness ==
    /\ pcI = "done" /\ i = Len(text) /\ Len(rich_text) >= 2
    /\ \E k \in 1..Len(rich_text) : rich_text[k].annotations.code
    /\ \E k \in 1..Len(rich_text) :
          Unstyled(rich_text[k]) /\ rich_text[k].content \in {<<"[">>, <<"*">>}

\* C2: plain text met after an unstyled, link-free run joins that run, so the
\* runs never hold two consecutive unstyled, link-free runs.
C2_NoAdjacentPlainRuns ==
    \A k \in 1..(Len(rich_text) - 1) :
        ~(Unstyled(rich_text[k]) /\ Unstyled(rich_text[k + 1]))

\* C3: every run has non-empty content, but for the one empty run returned
\* for the empty input.
C3_ContentNonEmpty ==
    pcI \in {"loop", "done"} /\ text # <<>> =>
        \A k \in 1..Len(rich_text) : rich_text[k].content # <<>>

\* C4: putting each run back inside the markers of its kind and concatenating
\* the runs gives back the text read so far, the whole input once the parser
\* has returned; for an input with no **, backtick or [ the contents alone do.
C4_RoundTrip ==
    pcI \in {"loop", "done"} =>
        /\ i <= Len(text)
        /\ RewrapAll(rich_text) = Slice(text, 0, i)
        /\ (pcI = "done" => RewrapAll(rich_text) = text)
        /\ (pcI = "done" /\ NoDelimiters(text) => ContentAll(rich_text) = text)

\* a returned parse with a non-empty bold, code or link run and a plain run
C4_Witness ==
    /\ pcI = "done"
    /\ \E k \in 1..Len(rich_text) :
          ~Unstyled(rich_text[k]) /\ rich_text[k].content # <<>>
    /\ \E k \in 1..Len(rich_text) :
          Unstyled(rich_text[k]) /\ rich_text[k].content # <<>>

----------------------------------------------------------------------------
\* parse_markdown_table.

\* Python's None
None == [type |-> "None"]

\* line 183, 203: [cell.strip() for cell in line.split('|') if cell.strip()]
Cells(line) ==
    LET parts == Split(line, "|")
        stripped == [k \in 1..Len(parts) |-> Strip(parts[k])]
    IN  SelectSeq(stripped, LAMBDA c : c # <<>>)

\* line 194-199, 205-210: a table_row block; a cell is one bare text run
TableRow(cells) ==
    [type |-> "table_row",
     cells |-> [k \in 1..Len(cells) |-> <<BareRun(cells[k])>>]]

\* line 203-210: the row blocks of the lines whose cell count is table_width
RECURSIVE RowsOf(_, _)
RowsOf(ls, table_width) ==
    IF ls = <<>> THEN <<>>
    ELSE LET cells == Cells(ls[1])
             rest == RowsOf(Tail(ls), table_width)
         IN  IF Len(cells) = table_width THEN <<TableRow(cells)>> \o rest ELSE rest

\* DataRows reading lines[1:], the separator line included
DataRows_FromSeparator(tl, table_width) == RowsOf(SubSeq(tl, 2, Len(tl)), table_width)

\* line 202: the data rows are read from lines[2:]
DataRows(tl, table_width) == RowsOf(SubSeq(tl, 3, Len(tl)), table_width)

\* line 177-220
parse_markdown_table(tl) ==
    IF Len(tl) < 2 THEN None
    ELSE LET header_cells == Cells(tl[1])
             table_width == Len(header_cells)
         IN  IF header_cells = <<>> THEN None
             ELSE [type |-> "table",
                   table_width |-> table_width,
                   has_column_header |-> TRUE,
                   has_row_header |-> FALSE,
                   children |-> <<TableRow(header_cells)>> \o DataRows(tl, table_width)]

\* the lines the table parser is tried on
TableLineSet ==
    {<<"a", "|", "b">>,
     <<"|", "b", "|", "a", "|">>,
     <<" ", "a", " ", "|", " ", "b", " ">>,
     <<"-", "|", "-">>,
     <<" ", "|", " ", "|">>,
     <<"a">>,
     <<"a", "|", "b", "|", "a">>,
     <<"a", "|", "|", "b">>,
     <<>>}

InitTable ==
    /\ table_lines \in SeqUpTo(TableLineSet, MaxTableLines)
    /\ table_block = None
    /\ pcT = "call"
    /\ IdleInline /\ IdleSeg /\ IdleSync

ReturnTable ==
    /\ table_block' = parse_markdown_table(table_lines)
    /\ pcT' = "done"
    /\ UNCHANGED table_lines
    /\ UNCHANGED <<inlineVars, segVars, syncVars>>

\* line 179-180
TableTooShort ==
    /\ pcT = "call" /\ Len(table_lines) < 2
    /\ ReturnTable

\* line 183-185
TableNoHeader ==
    /\ pcT = "call" /\ Len(table_lines) >= 2 /\ Cells(table_lines[1]) = <<>>
    /\ ReturnTable

\* line 187-220
TableParsed ==
    /\ pcT = "call" /\ Len(table_lines) >= 2 /\ Cells(table_lines[1]) # <<>>
    /\ ReturnTable

NextTable == TableTooShort \/ TableNoHeader \/ TableParsed

SpecTable == InitTable /\ [][NextTable]_vars

----------------------------------------------------------------------------
\* Properties of parse_markdown_table.

\* position k of the line starts a non-empty trimmed cell: a character that is
\* neither a pipe nor white space, with only white space between it and the
\* pipe (or the start of the line) before it
CellStart(line, k) ==
    /\ line[k] \notin Whitespace \cup {"|"}
    /\ \A j \in 1..(k - 1) :
          (\A m \in j..(k - 1) : line[m] # "|") => line[j] \in Whitespace

\* the number of non-empty trimmed cells of a line
CellCount(line) == Cardinality({k \in 1..Len(line) : CellStart(line, k)})

\* the text of the cells of a row block
RowTexts(row) == [k \in 1..Len(row.cells) |-> row.cells[k][1].content]

\* the lines from line 2 on whose cell count is n, in source order
MatchingLines(tl, n) ==
    SelectSeq(SubSeq(tl, 3, Len(tl)), LAMBDA l : CellCount(l) = n)

\* C5: for at least two lines whose first line has a non-empty cell the result
\* is a table whose column count is the number of non-empty trimmed cells of
\* line 0, whose every row has that many cells, whose header is line 0 and
\* whose data rows are, in source order, exactly the lines after line 1 with
\* that many cells; line 1 plays no part.
C5_TableShape ==
    pcT = "done" /\ Len(table_lines) >= 2 /\ CellCount(table_lines[1]) > 0 =>
        LET n == CellCount(table_lines[1])
            rows == table_block.children
            kept == MatchingLines(table_lines, n)
        IN  /\ table_block.type = "table"
            /\ table_block.table_width = n
            /\ \A k \in 1..Len(rows) : Len(rows[k].cells) = n
            /\ RowTexts(rows[1]) = Cells(table_lines[1])
            /\ Len(rows) = 1 + Len(kept)
            /\ \A k \in 1..Len(kept) : RowTexts(rows[k + 1]) = Cells(kept[k])

\* a table returned with one data row kept and one dropped
C5_Witness ==
    /\ pcT = "done" /\ Len(table_lines) = 4 /\ table_block.type = "table"
    /\ Len(table_block.children) = 2
    /\ CellCount(table_lines[4]) = table_block.table_width
    /\ CellCount(table_lines[2]) = table_block.table_width

----------------------------------------------------------------------------
\* markdown_to_notion_blocks: one iteration of the line loop, branch by branch.

FENCE == <<TICK, TICK, TICK>>

Digits == {"0", "1", "2", "3", "4", "5", "6", "7", "8", "9"}

PLAIN_TEXT == <<"p", "l", "a", "i", "n", " ", "t", "e", "x", "t">>

\* the line at the 0-based cursor k
LineAt(ls, k) == ls[k + 1]

\* line 233
IsFence(line) == StartsWith(line, FENCE)

\* line 251
IsTableStart(ls, k) ==
    /\ Contains(LineAt(ls, k), "|")
    /\ k + 1 < Len(ls)
    /\ Contains(LineAt(ls, k + 1), "|")

\* line 237-239: the cursor where the inner loop of a code fence stops
RECURSIVE FenceStop(_, _)
FenceStop(ls, k) ==
    IF k < Len(ls) /\ ~IsFence(LineAt(ls, k)) THEN FenceStop(ls, k + 1) ELSE k

\* line 254-256: the cursor where the inner loop of a table run stops
RECURSIVE TableStop(_, _)
TableStop(ls, k) ==
    IF k < Len(ls) /\ Contains(LineAt(ls, k), "|") THEN TableStop(ls, k + 1) ELSE k

\* the length of the match of ^\d+\.\s at the start of the line, 0 for no match
RECURSIVE DigitRun(_)
DigitRun(line) ==
    IF line # <<>> /\ line[1] \in Digits THEN 1 + DigitRun(Tail(line)) ELSE 0

NumberedPrefix(line) ==
    LET d == DigitRun(line)
    IN  IF d >= 1 /\ Len(line) >= d + 2 /\ line[d + 1] = "." /\ line[d + 2] \in Whitespace
        THEN d + 2 ELSE 0

\* {'type': ty, ty: {'rich_text': rt}}
TextBlock(ty, rt) == [type |-> ty, rich_text |-> rt]

\* line 240-246
CodeBlock(code_lines, language) ==
    [type |-> "code",
     rich_text |-> <<BareRun(Join(code_lines, "\n"))>>,
     language |-> language]

\* CodeFenceStep without the i += 1 of line 247: the closing fence is read again
CodeFenceStep_KeepsClosingFence(ls, k, bs) ==
    LET line == LineAt(ls, k)
        stripped == Strip(SliceFrom(line, 3))
        language == IF stripped # <<>> THEN stripped ELSE PLAIN_TEXT
        stop == FenceStop(ls, k + 1)
        code_lines == SubSeq(ls, k + 2, stop)
    IN  [li |-> stop, blocks |-> Append(bs, CodeBlock(code_lines, language))]

\* line 233-248
CodeFenceStep(ls, k, bs) ==
    LET line == LineAt(ls, k)
        stripped == Strip(SliceFrom(line, 3))
        language == IF stripped # <<>> THEN stripped ELSE PLAIN_TEXT
        stop == FenceStop(ls, k + 1)
        code_lines == SubSeq(ls, k + 2, stop)
    IN  [li |-> stop + 1, blocks |-> Append(bs, CodeBlock(code_lines, language))]

\* TableStep reading one line only when the run is no table, so that the rest
\* of the run is classified line by line
TableStep_ReReadsRun(ls, k, bs) ==
    LET stop == TableStop(ls, k)
        tb == parse_markdown_table(SubSeq(ls, k + 1, stop))
    IN  IF tb # None THEN [li |-> stop, blocks |-> Append(bs, tb)]
        ELSE [li |-> k + 1, blocks |-> bs]

\* TableStep reading the first line of the run only
TableStep_OneLine(ls, k, bs) ==
    LET tb == parse_markdown_table(SubSeq(ls, k + 1, k + 2))
    IN  [li |-> k + 1, blocks |-> IF tb # None THEN Append(bs, tb) ELSE bs]

\* line 251-261
TableStep(ls, k, bs) ==
    LET stop == TableStop(ls, k)
        tb == parse_markdown_table(SubSeq(ls, k + 1, stop))
    IN  [li |-> stop, blocks |-> IF tb # None THEN Append(bs, tb) ELSE bs]

\* line 263-303: the branch of a line that starts neither a fence nor a table
LineKind(line) ==
    IF StartsWith(line, <<"#", "#", "#", " ">>) THEN "heading_3"
    ELSE IF StartsWith(line, <<"#", "#", " ">>) THEN "heading_2"
    ELSE IF StartsWith(line, <<"#", " ">>) THEN "heading_1"
    ELSE IF StartsWith(line, <<"-", " ">>) \/ StartsWith(line, <<"*", " ">>) THEN "bullet"
    ELSE IF NumberedPrefix(line) > 0 THEN "numbered"
    ELSE IF Strip(line) # <<>> THEN "paragraph"
    ELSE "blank"

\* the branch the iteration at cursor k takes
SegBranch(ls, k) ==
    IF IsFence(LineAt(ls, k)) THEN "code"
    ELSE IF IsTableStart(ls, k) THEN "table"
    ELSE LineKind(LineAt(ls, k))

\* line 267, 272, 278, 285, 290, 300: the text handed to parse_rich_text
LineText(line) ==
    CASE LineKind(line) = "heading_3" -> SliceFrom(line, 4)
      [] LineKind(line) = "heading_2" -> SliceFrom(line, 3)
      [] LineKind(line) = "heading_1" -> SliceFrom(line, 2)
      [] LineKind(line) = "bullet" -> SliceFrom(line, 2)
      [] LineKind(line) = "numbered" -> SliceFrom(line, NumberedPrefix(line))
      [] OTHER -> line

\* line 266, 271, 277, 284, 292, 299: the type of the block of the line
BlockType(line) ==
    CASE LineKind(line) = "heading_3" -> "heading_3"
      [] LineKind(line) = "heading_2" -> "heading_2"
      [] LineKind(line) = "heading_1" -> "heading_2"
      [] LineKind(line) = "bullet" -> "bulleted_list_item"
      [] LineKind(line) = "numbered" -> "bulleted_list_item"
      [] OTHER -> "paragraph"

\* line 264-303: the block of a single line, if any, and i += 1
LineStep(ls, k, bs) ==
    [li |-> k + 1,
     blocks |->
        IF LineKind(LineAt(ls, k)) = "blank" THEN bs
        ELSE Append(bs, TextBlock(BlockType(LineAt(ls, k)),
                                  parse_rich_text(LineText(LineAt(ls, k)))))]

\* line 229-303: one iteration
SegStep(ls, k, bs) ==
    CASE SegBranch(ls, k) = "code" -> CodeFenceStep(ls, k, bs)
      [] SegBranch(ls, k) = "table" -> TableStep(ls, k, bs)
      [] OTHER -> LineStep(ls, k, bs)

\* line 229-303: the iterations of the loop from cursor k until the cursor
\* reaches hi, run half by half so that the evaluation of a long file stays
\* shallow
RECURSIVE SegLoop(_, _, _, _)
SegLoop(ls, k, hi, bs) ==
    IF k >= hi THEN [li |-> k, blocks |-> bs]
    ELSE IF hi - k = 1 THEN SegStep(ls, k, bs)
    ELSE LET r == SegLoop(ls, k, (k + hi) \div 2, bs)
         IN  SegLoop(ls, r.li, hi, r.blocks)

\* line 225-305, from the lines of the text
BlocksOfLines(ls) == SegLoop(ls, 0, Len(ls), <<>>).blocks

\* line 223-305, as a function of its argument
markdown_to_notion_blocks(content) == BlocksOfLines(Split(content, "\n"))

----------------------------------------------------------------------------
\* markdown_to_notion_blocks as a process: one action per branch of the loop.

\* the lines the documents explored are made of
SegLineSet ==
    {FENCE,
     FENCE \o <<"|">>,
     <<"a", "|", "b">>,
     <<"|">>,
     <<"#", " ", "|", "a">>,
     <<"#", "#", "#", " ", "a">>,
     <<"#", "#", " ", "a">>,
     <<"#", " ", "a">>,
     <<"-", " ", "a">>,
     <<"1", ".", " ", "a">>,
     <<"a">>,
     <<>>,
     <<" ">>}

\* longer documents explored beside every document of at most MaxLines lines
LongDocs ==
    {<<FENCE \o <<"p", "y">>, <<"a", "|", "b">>, <<"a", "|", "b">>, <<"#", " ", "a">>,
       FENCE, <<"a">>>>,
     <<<<"a">>, FENCE, <<"-", " ", "a">>, <<>>, <<"a", "|", "b">>>>,
     <<<<"a", "|", "b">>, <<"-", "|", "-">>, <<"1", "|", "2">>, <<"1", "|", "2", "|", "3">>,
       <<"*", " ", "*", "*", "a", "*", "*">>>>,
     <<<<"|">>, <<"#", " ", "|", "a">>, <<"-", " ", "|">>, <<"a">>, <<"1", "2", ".", "\t", "a">>>>,
     <<<<"a", TICK, TICK, TICK>>, <<"1", ".", "a">>, <<" ", "#", " ", "a">>,
       FENCE \o <<" ">>, FENCE>>}

Docs == (UNION {[1..k -> SegLineSet] : k \in 1..MaxLines}) \cup LongDocs

InitSeg ==
    /\ \E d \in Docs :
          /\ md_content = Join(d, "\n")
          /\ lines = Split(md_content, "\n")
    /\ li = 0
    /\ blocks = <<>>
    /\ pcS = "loop"
    /\ IdleInline /\ IdleTable /\ IdleSync

SegInLoop == pcS = "loop" /\ li < Len(lines)

ApplySeg(s) ==
    /\ li' = s.li
    /\ blocks' = s.blocks
    /\ UNCHANGED <<md_content, lines, pcS>>
    /\ UNCHANGED <<inlineVars, tableVars, syncVars>>

CodeFence ==
    /\ SegInLoop /\ SegBranch(lines, li) = "code"
    /\ ApplySeg(CodeFenceStep(lines, li, blocks))

TableRun ==
    /\ SegInLoop /\ SegBranch(lines, li) = "table"
    /\ ApplySeg(TableStep(lines, li, blocks))

Heading3 ==
    /\ SegInLoop /\ SegBranch(lines, li) = "heading_3"
    /\ ApplySeg(LineStep(lines, li, blocks))

Heading2 ==
    /\ SegInLoop /\ SegBranch(lines, li) = "heading_2"
    /\ ApplySeg(LineStep(lines, li, blocks))

Heading1 ==
    /\ SegInLoop /\ SegBranch(lines, li) = "heading_1"
    /\ ApplySeg(LineStep(lines, li, blocks))

Bullet ==
    /\ SegInLoop /\ SegBranch(lines, li) = "bullet"
    /\ ApplySeg(LineStep(lines, li, blocks))

Numbered ==
    /\ SegInLoop /\ SegBranch(lines, li) = "numbered"
    /\ ApplySeg(LineStep(lines, li, blocks))

Paragraph ==
    /\ SegInLoop /\ SegBranch(lines, li) = "paragraph"
    /\ ApplySeg(LineStep(lines, li, blocks))

Blank ==
    /\ SegInLoop /\ SegBranch(lines, li) = "blank"
    /\ ApplySeg(LineStep(lines, li, blocks))

\* line 229 (loop exit), 305
SegReturn ==
    /\ pcS = "loop" /\ li >= Len(lines)
    /\ pcS' = "done"
    /\ UNCHANGED <<md_content, lines, li, blocks>>
    /\ UNCHANGED <<inlineVars, tableVars, syncVars>>

NextSeg ==
    \/ CodeFence \/ TableRun \/ Heading3 \/ Heading2 \/ Heading1
    \/ Bullet \/ Numbered \/ Paragraph \/ Blank \/ SegReturn

SpecSeg == InitSeg /\ [][NextSeg]_vars

----------------------------------------------------------------------------
\* Properties of markdown_to_notion_blocks.

\* the 0-based index of the first line at or after k that satisfies P, or the
\* number of lines when there is none
FirstLine(ls, k, P(_)) ==
    Min({j \in k..Len(ls) : j = Len(ls) \/ P(ls[j + 1])})

HasPipe(line) == \E k \in 1..Len(line) : line[k] = "|"

NoPipe(line) == ~HasPipe(line)

OpensFence(line) == Len(line) >= 3 /\ \A k \in 1..3 : line[k] = TICK

\* the cursor is at a line that starts a table run and no code fence
AtTableRun ==
    /\ SegInLoop /\ ~OpensFence(lines[li + 1]) /\ HasPipe(lines[li + 1])
    /\ li + 2 <= Len(lines) /\ HasPipe(lines[li + 2])

\* C6: every iteration of the line loop strictly advances the cursor: by the
\* whole span for a code fence (at least one line, closed or not) and for a
\* table run (at least two lines), by exactly one line otherwise; the cursor
\* never passes the line after the last.
C6_CursorAdvances ==
    [][SegInLoop =>
        /\ li' > li
        /\ li' <= Len(lines) + 1
        /\ (OpensFence(lines[li + 1]) => li' >= li + 1)
        /\ (AtTableRun => li' >= li + 2)
        /\ (~OpensFence(lines[li + 1]) /\ ~AtTableRun => li' = li + 1)]_vars

\* a conversion that has returned after an unclosed code fence
C6_Witness ==
    /\ pcS = "done" /\ li = Len(lines) + 1
    /\ blocks # <<>> /\ blocks[Len(blocks)].type = "code"

\* C9: at a line starting with three backticks exactly one block is added, a
\* code block whose text is the lines after it joined by newline up to, and
\* without, the next line starting with three backticks or the end of the
\* input; the cursor moves to the line after that closing fence.
C9_CodeFence ==
    [][SegInLoop /\ OpensFence(lines[li + 1]) =>
        LET close == FirstLine(lines, li + 1, OpensFence)
        IN  /\ Len(blocks') = Len(blocks) + 1
            /\ SubSeq(blocks', 1, Len(blocks)) = blocks
            /\ blocks'[Len(blocks')].type = "code"
            /\ Len(blocks'[Len(blocks')].rich_text) = 1
            /\ blocks'[Len(blocks')].rich_text[1].content
                  = Join(SubSeq(lines, li + 2, close), "\n")
            /\ li' = close + 1]_vars

\* a closed fence around several lines, a table run among them, has been read
\* and lines remain after it
C9_Witness ==
    /\ pcS = "loop" /\ li < Len(lines) /\ li >= 4
    /\ OpensFence(lines[li])
    /\ Len(blocks) = 1 /\ blocks[1].type = "code"
    /\ HasPipe(blocks[1].rich_text[1].content)
    /\ Contains(blocks[1].rich_text[1].content, "\n")

\* C10: at a line with a pipe, followed by a line with a pipe, that starts no
\* code fence, the whole run of lines with a pipe is consumed; exactly one
\* table block is added when the first line of the run has a non-empty cell
\* and none otherwise, and the conversion goes on at the line after the run.
C10_TableRun ==
    [][AtTableRun =>
        LET stop == FirstLine(lines, li, NoPipe)
        IN  /\ li' = stop
            /\ pcS' = "loop"
            /\ IF CellCount(lines[li + 1]) > 0
               THEN /\ Len(blocks') = Len(blocks) + 1
                    /\ SubSeq(blocks', 1, Len(blocks)) = blocks
                    /\ blocks'[Len(blocks')].type = "table"
                    /\ blocks'[Len(blocks')].table_width = CellCount(lines[li + 1])
               ELSE blocks' = blocks]_vars

\* a run of lines with a pipe whose first line has no cell has been dropped
\* and lines remain after it
C10_Witness ==
    /\ pcS = "loop" /\ li >= 2 /\ li < Len(lines)
    /\ blocks = <<>>
    /\ \A k \in 1..li : HasPipe(lines[k])
    /\ ~OpensFence(lines[1]) /\ CellCount(lines[1]) = 0
    /\ NoPipe(lines[li + 1])

----------------------------------------------------------------------------
\* main and sync_markdown_file.  A page id is a positive number, 0 stands
\* for None; pages[p] is what the destination holds under page p.

\* line 337
chunk_size == 100

\* the decimal digits of a positive number
RECURSIVE Decimal(_)
Decimal(n) ==
    LET d == <<"0", "1", "2", "3", "4", "5", "6", "7", "8", "9">>[(n % 10) + 1]
    IN  IF n < 10 THEN <<d>> ELSE Append(Decimal(n \div 10), d)

\* line 311-312: the text of a file of n lines, line k being the number k
DocText(n) == Join([k \in 1..n |-> Decimal(k)], "\n")

\* the sizes of the files explored: empty, one full chunk, one full chunk and
\* one block
DocSizes == {0, chunk_size, chunk_size + 1}

\* the files of the command line: one that does not exist, or a text
FileSet ==
    {[exists |-> FALSE, size |-> 0]} \cup {[exists |-> TRUE, size |-> n] : n \in DocSizes}

\* the page given with --parent
GIVEN_PARENT == 1

InitSync ==
    /\ md_files \in UNION {[1..k -> FileSet] : k \in 1..MaxFiles}
    /\ parent_page_id \in {0, GIVEN_PARENT}
    /\ fi = 0
    /\ pcM = "next_file"
    /\ attempted = <<>>
    /\ results = <<>>
    /\ page_id = 0
    /\ ci = 0
    /\ pages = <<<<>>>>
    /\ md_content = <<>> /\ lines = <<>> /\ li = 0 /\ blocks = <<>> /\ pcS = "idle"
    /\ IdleInline /\ IdleTable

\* the exception escapes main: the remaining files are never read
Raise_Uncaught ==
    /\ results' = Append(results, "error")
    /\ pcM' = "done"
    /\ UNCHANGED fi

\* line 386, 391, 394: the loop of main goes on with the next file; r is what
\* was printed for this one
NextFile(r) ==
    /\ results' = Append(results, r)
    /\ pcM' = "next_file"
    /\ fi' = fi + 1

\* line 392-394: an exception raised in sync_markdown_file is caught by main
Raise == NextFile("error")

\* ChunkOf taking one block too many
ChunkOf_Overlap(bs, k) ==
    SubSeq(bs, k + 1, IF k + chunk_size + 1 < Len(bs) THEN k + chunk_size + 1 ELSE Len(bs))

\* line 339: blocks[i:i + chunk_size]
ChunkOf(bs, k) ==
    SubSeq(bs, k + 1, IF k + chunk_size < Len(bs) THEN k + chunk_size ELSE Len(bs))

AtFile == pcM = "next_file" /\ fi < Len(md_files)

OtherUnchanged == UNCHANGED <<lines, li, pcS, inlineVars, tableVars>>

\* line 384-386
FileNotFound ==
    /\ AtFile /\ ~md_files[fi + 1].exists
    /\ attempted' = Append(attempted, fi + 1)
    /\ NextFile("not_found")
    /\ UNCHANGED <<md_files, parent_page_id, page_id, ci, pages, md_content, blocks>>
    /\ OtherUnchanged

\* line 388-390, 311-312: the call of sync_markdown_file, the file is read
ReadFile ==
    /\ AtFile /\ md_files[fi + 1].exists
    /\ attempted' = Append(attempted, fi + 1)
    /\ md_content' = DocText(md_files[fi + 1].size)
    /\ blocks' = <<>>
    /\ page_id' = 0
    /\ ci' = 0
    /\ pcM' = IF parent_page_id = 0 THEN "search" ELSE "create"
    /\ UNCHANGED <<md_files, parent_page_id, fi, results, pages>>
    /\ OtherUnchanged

\* line 321-324: the search returns pages, the first is the parent (a local of
\* the call: the parent_page_id of main stays None)
SearchFound ==
    /\ pcM = "search"
    /\ pcM' = "create"
    /\ UNCHANGED <<md_files, parent_page_id, fi, attempted, results, page_id, ci, pages,
                   md_content, blocks>>
    /\ OtherUnchanged

\* line 325-327: the search returns no page, sync_markdown_file returns None
SearchEmpty ==
    /\ pcM = "search"
    /\ NextFile("no_parent")
    /\ UNCHANGED <<md_files, parent_page_id, attempted, page_id, ci, pages,
                   md_content, blocks>>
    /\ OtherUnchanged

\* line 56: the search request fails
SearchFails ==
    /\ pcM = "search"
    /\ Raise
    /\ UNCHANGED <<md_files, parent_page_id, attempted, page_id, ci, pages,
                   md_content, blocks>>
    /\ OtherUnchanged

\* line 331, 60-73: a new, empty page
CreatePage ==
    /\ pcM = "create"
    /\ pages' = Append(pages, <<>>)
    /\ page_id' = Len(pages) + 1
    /\ pcM' = "convert"
    /\ UNCHANGED <<md_files, parent_page_id, fi, attempted, results, ci, md_content, blocks>>
    /\ OtherUnchanged

\* line 72: the page request fails
CreateFails ==
    /\ pcM = "create"
    /\ Raise
    /\ UNCHANGED <<md_files, parent_page_id, attempted, page_id, ci, pages,
                   md_content, blocks>>
    /\ OtherUnchanged

\* line 334
Convert ==
    /\ pcM = "convert"
    /\ blocks' = markdown_to_notion_blocks(md_content)
    /\ ci' = 0
    /\ pcM' = "upload"
    /\ UNCHANGED <<md_files, parent_page_id, fi, attempted, results, page_id, pages, md_content>>
    /\ OtherUnchanged

\* line 338-341, 76-83: one chunk is appended to the page
AppendChunk ==
    /\ pcM = "upload" /\ ci < Len(blocks)
    /\ pages' = [pages EXCEPT ![page_id] = @ \o ChunkOf(blocks, ci)]
    /\ ci' = ci + chunk_size
    /\ UNCHANGED <<md_files, parent_page_id, fi, pcM, attempted, results, page_id,
                   md_content, blocks>>
    /\ OtherUnchanged

\* line 83: the append request fails, the destination has taken nothing
AppendFails ==
    /\ pcM = "upload" /\ ci < Len(blocks)
    /\ Raise
    /\ UNCHANGED <<md_files, parent_page_id, attempted, page_id, ci, pages,
                   md_content, blocks>>
    /\ OtherUnchanged

\* line 338 (loop exit), 343-346, 391
UploadDone ==
    /\ pcM = "upload" /\ ci >= Len(blocks)
    /\ NextFile("ok")
    /\ UNCHANGED <<md_files, parent_page_id, attempted, page_id, ci, pages,
                   md_content, blocks>>
    /\ OtherUnchanged

\* line 383 (loop exit)
MainReturn ==
    /\ pcM = "next_file" /\ fi >= Len(md_files)
    /\ pcM' = "done"
    /\ UNCHANGED <<md_files, parent_page_id, fi, attempted, results, page_id, ci, pages,
                   md_content, blocks>>
    /\ OtherUnchanged

NextSync ==
    \/ FileNotFound \/ ReadFile \/ SearchFound \/ SearchEmpty \/ SearchFails
    \/ CreatePage \/ CreateFails \/ Convert \/ AppendChunk \/ AppendFails
    \/ UploadDone \/ MainReturn

SpecSync == InitSync /\ [][NextSync]_vars

----------------------------------------------------------------------------
\* Properties of the upload driver.

IsPrefix(a, b) == Len(a) <= Len(b) /\ SubSeq(b, 1, Len(a)) = a

\* C7: the blocks of a document reach its page in chunks of at most
\* chunk_size blocks, each the blocks that follow those already appended, and
\* a chunk is sent only when all chunks before it were appended; so the page
\* always holds a prefix of the document, also after a failed append, and
\* the whole document after a successful upload.
C7_UploadInOrder ==
    /\ [](page_id # 0 => IsPrefix(pages[page_id], blocks))
    /\ [](pcM = "upload" =>
            Len(pages[page_id]) = (IF ci < Len(blocks) THEN ci ELSE Len(blocks)))
    /\ [](/\ pcM \in {"next_file", "done"}
          /\ results # <<>> /\ results[Len(results)] = "ok"
          => pages[page_id] = blocks)
    /\ [][pages' # pages /\ Len(pages') = Len(pages) =>
            /\ pcM = "upload"
            /\ \A p \in 1..Len(pages) : p # page_id => pages'[p] = pages[p]
            /\ \E n \in 1..chunk_size :
                  pages'[page_id] = pages[page_id] \o
                      SubSeq(blocks, Len(pages[page_id]) + 1, Len(pages[page_id]) + n)]_vars

\* the append of the second chunk of a document has failed
C7_Witness ==
    /\ pcM = "next_file" /\ results # <<>> /\ results[Len(results)] = "error"
    /\ page_id # 0
    /\ Len(blocks) = chunk_size + 1
    /\ Len(pages[page_id]) = chunk_size

\* C8: whatever happens to a file (not found, no parent page, a failed
\* request), the loop of main goes on with the next one: the files are
\* attempted once each in the order given, main returns only from the end of
\* the list, and every file has been attempted when it does.
C8_BatchContinues ==
    /\ [](attempted = [k \in 1..Len(attempted) |-> k])
    /\ [](Len(results) = fi /\ Len(attempted) \in {fi, fi + 1})
    /\ [](pcM = "done" => Len(attempted) = Len(md_files))
    /\ [][results' # results => pcM' = "next_file" /\ fi' = fi + 1]_vars
    /\ [][pcM' = "done" => pcM \in {"next_file", "done"} /\ fi = Len(md_files)]_vars

\* main has returned after a file whose upload failed while appending and a
\* file uploaded whole
C8_Witness ==
    /\ pcM = "done" /\ Len(md_files) = 2
    /\ results = <<"error", "ok">>
    /\ Len(pages) = 3
    /\ Len(pages[2]) < md_files[1].size
    /\ Len(pages[3]) = md_files[2].size /\ md_files[2].size > chunk_size

----------------------------------------------------------------------------
\* The four parts together.

Init == InitInline \/ InitTable \/ InitSeg \/ InitSync

Next == NextInline \/ NextTable \/ NextSeg \/ NextSync

Spec == Init /\ [][Next]_vars

====
